---- MODULE Spec2Model ----
(***************************************************************************)
(* Model of go-multifs (src/multifs.go): a mount table of named fs.FS      *)
(* backends, the path resolver MultiFS.split, and the facade Open / Stat / *)
(* ReadDir.  Go strings are sequences of one-character strings, so that    *)
(* strings.Trim, path.Clean, strings.SplitN ... are computed, not assumed. *)
(***************************************************************************)
EXTENDS Integers, Sequences, FiniteSets, TLC

VARIABLES roots, pc, last, mounted, cur, conc

vars == <<roots, pc, last, mounted, cur, conc>>

(***************************************************************************)
(* Bounds of the explored inputs.                                          *)
(***************************************************************************)
\* caller paths are every "/"-joined sequence of at most MaxSegs segments,
\* and the longer paths of LongPaths
MaxSegs == 3

\* ReadDir calls made on one directory handle
MaxReads == 3

(***************************************************************************)
(* Strings.                                                                *)
(***************************************************************************)
Sep == "/"

Empty == <<>>
StrDot == <<".">>
StrDotDot == <<".", ".">>
StrDotSlash == <<".", "/">>
StrDotDotSlash == <<".", ".", "/">>
StrSlash == <<"/">>

\* s[i..] (1-based), the Go slice s[i-1:]
From(s, i) == SubSeq(s, i, Len(s))

\* strings.HasPrefix
HasPrefix(s, p) == Len(s) >= Len(p) /\ SubSeq(s, 1, Len(p)) = p

\* strings.TrimPrefix
TrimPrefix(s, p) == IF HasPrefix(s, p) THEN From(s, Len(p) + 1) ELSE s

\* strings.Contains(s, "/")
ContainsSep(s) == \E i \in 1..Len(s) : s[i] = Sep

RECURSIVE TrimLeft(_)
TrimLeft(s) ==
  IF s # Empty /\ Head(s) = Sep THEN TrimLeft(Tail(s)) ELSE s

RECURSIVE TrimRight(_)
TrimRight(s) ==
  IF s # Empty /\ s[Len(s)] = Sep THEN TrimRight(SubSeq(s, 1, Len(s) - 1)) ELSE s

\* strings.Trim(s, "/")
Trim(s) == TrimRight(TrimLeft(s))

\* index of the first separator of s, 0 when there is none
RECURSIVE IndexSepFrom(_, _)
IndexSepFrom(s, i) ==
  IF i > Len(s) THEN 0
  ELSE IF s[i] = Sep THEN i
  ELSE IndexSepFrom(s, i + 1)

IndexSep(s) == IndexSepFrom(s, 1)

\* strings.SplitN(s, "/", 2)
SplitN2(s) ==
  LET i == IndexSep(s)
  IN IF i = 0 THEN <<s>> ELSE <<SubSeq(s, 1, i - 1), From(s, i + 1)>>

\* the "/"-separated segments of s (strings.Split(s, "/"))
RECURSIVE Segments(_)
Segments(s) ==
  LET i == IndexSep(s)
  IN IF i = 0 THEN <<s>> ELSE <<SubSeq(s, 1, i - 1)>> \o Segments(From(s, i + 1))

\* strings.Join(segs, "/")
RECURSIVE Join(_)
Join(segs) ==
  IF segs = <<>> THEN Empty
  ELSE IF Len(segs) = 1 THEN segs[1]
  ELSE segs[1] \o StrSlash \o Join(Tail(segs))

(***************************************************************************)
(* path.Clean: the output is built segment by segment.  out is the output  *)
(* so far (as segments) and dotdot the number of leading ".." segments of  *)
(* out that a later ".." must not remove.                                  *)
(***************************************************************************)
RECURSIVE CleanLoop(_, _, _, _)
CleanLoop(segs, out, dotdot, rooted) ==
  IF segs = <<>> THEN out
  ELSE
    LET s == Head(segs)
        rest == Tail(segs)
    IN CASE s = Empty -> CleanLoop(rest, out, dotdot, rooted)
         [] s = StrDot -> CleanLoop(rest, out, dotdot, rooted)
         [] s = StrDotDot ->
              IF Len(out) > dotdot
              THEN CleanLoop(rest, SubSeq(out, 1, Len(out) - 1), dotdot, rooted)
              ELSE IF ~rooted
              THEN CleanLoop(rest, Append(out, s), Len(out) + 1, rooted)
              ELSE CleanLoop(rest, out, dotdot, rooted)
         [] OTHER -> CleanLoop(rest, Append(out, s), dotdot, rooted)

Clean(p) ==
  IF p = Empty THEN StrDot
  ELSE
    LET rooted == Head(p) = Sep
        out == CleanLoop(Segments(p), <<>>, 0, rooted)
    IN IF rooted THEN StrSlash \o Join(out)
       ELSE IF out = <<>> THEN StrDot
       ELSE Join(out)

(***************************************************************************)
(* Errors and absent values.                                               *)
(***************************************************************************)
Nil == "nil"
ErrNotExist == "fs.ErrNotExist"
ErrBadID == "multifs: ids must be non-empty single path components"
ErrNilFS == "multifs: fs is nil"
ErrNotDir == "not a directory"
EOF == "io.EOF"
\* what a backend answers for a name it does not hold (*fs.PathError)
ErrBackendNotExist == "open: file does not exist (backend PathError)"

(***************************************************************************)
(* The backends: two read-only in-memory trees, as the tests mount them.   *)
(* fs1 holds the files a and b/a, fs2 holds the files a and b.             *)
(***************************************************************************)
Backends == {"fs1", "fs2"}

\* two more backends for the directory handles: fs3 is an empty directory,
\* fs4 a backend whose root cannot be opened or listed
DirBackends == Backends \cup {"fs3", "fs4", "fs5"}

\* the backends whose listing of an empty directory is a nil slice
NilListers == {"fs5"}

FileEnt(n) == [name |-> n, isDir |-> FALSE]
DirEnt(n) == [name |-> n, isDir |-> TRUE]

BackendTree(f) ==
  IF f = "fs1"
  THEN { [path |-> <<".">>, isDir |-> TRUE, data |-> "",
          children |-> <<FileEnt(<<"a">>), DirEnt(<<"b">>)>>],
         [path |-> <<"a">>, isDir |-> FALSE, data |-> "hello from fs1",
          children |-> <<>>],
         [path |-> <<"b">>, isDir |-> TRUE, data |-> "",
          children |-> <<FileEnt(<<"a">>)>>],
         [path |-> <<"b", "/", "a">>, isDir |-> FALSE, data |-> "bar in fs1",
          children |-> <<>>] }
  ELSE IF f \in {"fs3", "fs5"}
  THEN { [path |-> <<".">>, isDir |-> TRUE, data |-> "", children |-> <<>>] }
  ELSE IF f = "fs4"
  THEN {}
  ELSE { [path |-> <<".">>, isDir |-> TRUE, data |-> "",
          children |-> <<FileEnt(<<"a">>), FileEnt(<<"b">>)>>],
         [path |-> <<"a">>, isDir |-> FALSE, data |-> "hello from fs2",
          children |-> <<>>],
         [path |-> <<"b">>, isDir |-> FALSE, data |-> "qux in fs2",
          children |-> <<>>] }

BackendHas(f, name) == \E n \in BackendTree(f) : n.path = name
BackendNode(f, name) == CHOOSE n \in BackendTree(f) : n.path = name

\* the last segment of a cleaned path (fs.FileInfo.Name of a backend file)
Base(name) == LET segs == Segments(name) IN segs[Len(segs)]

(***************************************************************************)
(* File handles.  One record shape for the three kinds of fs.File that     *)
(* Open returns: rootDir{names,pos}, snapshotRootDir{fs,pos,buf} and a     *)
(* backend's own file (kind "backend", named by fs and path).              *)
(***************************************************************************)
NoFile ==
  [kind |-> "nil", fs |-> Nil, path |-> Empty, names |-> <<>>,
   pos |-> 0, buf |-> <<>>, bufNil |-> TRUE]

newRootDir(names) ==
  [kind |-> "rootDir", fs |-> Nil, path |-> Empty, names |-> names,
   pos |-> 0, buf |-> <<>>, bufNil |-> TRUE]

newSnapshotRootDir(f) ==
  [kind |-> "snapshotRootDir", fs |-> f, path |-> Empty, names |-> <<>>,
   pos |-> 0, buf |-> <<>>, bufNil |-> TRUE]

BackendFile(f, name) ==
  [kind |-> "backend", fs |-> f, path |-> name, names |-> <<>>,
   pos |-> 0, buf |-> <<>>, bufNil |-> TRUE]

\* backend.Open(name): the backend's own answer
BackendOpen(f, name) ==
  IF BackendHas(f, name)
  THEN [file |-> BackendFile(f, name), err |-> Nil]
  ELSE [file |-> NoFile, err |-> ErrBackendNotExist]

NoInfo == [name |-> Empty, isDir |-> FALSE, mode |-> Nil, size |-> 0]

\* dirInfo{name}: a synthetic directory's metadata
dirInfo(n) == [name |-> n, isDir |-> TRUE, mode |-> "ModeDir|0555", size |-> 0]

\* dirEntry{name}: a synthetic directory entry
dirEntry(n) == [name |-> n, isDir |-> TRUE]

(***************************************************************************)
(* The mount table m.roots: a Go map, here a function whose domain is the  *)
(* set of mounted identifiers.                                             *)
(***************************************************************************)
NewMultiFS == <<>>

\* m.roots[id] = f
Put(rts, id, f) ==
  [k \in (DOMAIN rts) \cup {id} |-> IF k = id THEN f ELSE rts[k]]

\* delete(m.roots, id)
Delete(rts, id) == [k \in (DOMAIN rts) \ {id} |-> rts[k]]

\* mutant: an identifier already mounted keeps its backend
mountTable_KeepExisting(rts, id0, f) ==
  LET id == Trim(id0)
  IN IF id = Empty \/ ContainsSep(id)
     THEN [roots |-> rts, err |-> ErrBadID]
     ELSE IF f = Nil
     THEN [roots |-> rts, err |-> ErrNilFS]
     ELSE IF id \in DOMAIN rts
     THEN [roots |-> rts, err |-> Nil]
     ELSE [roots |-> Put(rts, id, f), err |-> Nil]

\* mutant: the identifier is validated and stored untrimmed
mountTable_NoTrim(rts, id, f) ==
  IF id = Empty \/ ContainsSep(id)
  THEN [roots |-> rts, err |-> ErrBadID]
  ELSE IF f = Nil
  THEN [roots |-> rts, err |-> ErrNilFS]
  ELSE [roots |-> Put(rts, id, f), err |-> Nil]

\* mutant: the trimmed identifier is validated, the untrimmed one is stored
mountTable_StoreRaw(rts, id0, f) ==
  LET id == Trim(id0)
  IN IF id = Empty \/ ContainsSep(id)
     THEN [roots |-> rts, err |-> ErrBadID]
     ELSE IF f = Nil
     THEN [roots |-> rts, err |-> ErrNilFS]
     ELSE [roots |-> Put(rts, id0, f), err |-> Nil]

\* Mount: the table and the error it leaves
mountTable(rts, id0, f) ==
  LET id == Trim(id0)
  IN IF id = Empty \/ ContainsSep(id)
     THEN [roots |-> rts, err |-> ErrBadID]
     ELSE IF f = Nil
     THEN [roots |-> rts, err |-> ErrNilFS]
     ELSE [roots |-> Put(rts, id, f), err |-> Nil]

\* mutant: success is reported and the mapping stays
unmountTable_NoDelete(rts, id) ==
  IF id \notin DOMAIN rts
  THEN [roots |-> rts, err |-> ErrNotExist]
  ELSE [roots |-> rts, err |-> Nil]

\* mutant: every mapping is removed
unmountTable_Clear(rts, id) ==
  IF id \notin DOMAIN rts
  THEN [roots |-> rts, err |-> ErrNotExist]
  ELSE [roots |-> <<>>, err |-> Nil]

\* Unmount: the table and the error it leaves
unmountTable(rts, id) ==
  IF id \notin DOMAIN rts
  THEN [roots |-> rts, err |-> ErrNotExist]
  ELSE [roots |-> Delete(rts, id), err |-> Nil]

getRoot(rts, id) ==
  IF id \in DOMAIN rts
  THEN [fs |-> rts[id], ok |-> TRUE]
  ELSE [fs |-> Nil, ok |-> FALSE]

\* every order in which ranging over a Go map can yield the keys
Orders(S) ==
  {q \in [1..Cardinality(S) -> S] : \A i, j \in DOMAIN q : q[i] = q[j] => i = j}

\* mutant: make([]string, len(m.roots)) in place of make([]string, 0, len(...)):
\* the appended names follow len(m.roots) empty strings
idsSnapshot_MakeLen(rts) ==
  LET n == Cardinality(DOMAIN rts)
  IN {[i \in 1..(2 * n) |-> IF i <= n THEN Empty ELSE q[i - n]] :
        q \in Orders(DOMAIN rts)}

idsSnapshot(rts) == Orders(DOMAIN rts)

(***************************************************************************)
(* MultiFS.split: the path resolver.                                       *)
(***************************************************************************)
\* mutant: the path is not cleaned
splitNormalize_NoClean(name0) ==
  LET noLead == IF HasPrefix(name0, StrSlash)
                THEN TrimPrefix(name0, StrSlash) ELSE name0
  IN TrimPrefix(noLead, StrDotSlash)

\* mutant: a leading separator is kept
splitNormalize_KeepLead(name0) == TrimPrefix(Clean(name0), StrDotSlash)

\* the first half of split: clean, drop one leading "/", drop a leading "./"
splitNormalize(name0) ==
  LET cleaned == Clean(name0)
      noLead == IF HasPrefix(cleaned, StrSlash)
                THEN TrimPrefix(cleaned, StrSlash) ELSE cleaned
  IN TrimPrefix(noLead, StrDotSlash)

\* split's cut at the first separator and its lookup of the identifier
splitLookup(rts, name) ==
  LET parts == SplitN2(name)
      id == parts[1]
  IN IF ~getRoot(rts, id).ok
     THEN [id |-> Empty, subpath |-> Empty, err |-> ErrNotExist]
     ELSE [id |-> id,
           subpath |-> IF Len(parts) = 1 THEN StrDot ELSE parts[2],
           err |-> Nil]

\* mutant: ".." and "../" are not refused
splitResolve_NoEscapeCheck(rts, name) ==
  IF name = Empty \/ name = StrDot
  THEN [id |-> Empty, subpath |-> StrDot, err |-> Nil]
  ELSE splitLookup(rts, name)

\* the second half of split: root, escape, or (id, subpath)
splitResolve(rts, name) ==
  IF name = Empty \/ name = StrDot
  THEN [id |-> Empty, subpath |-> StrDot, err |-> Nil]
  ELSE IF name = StrDotDot \/ HasPrefix(name, StrDotDotSlash)
  THEN [id |-> Empty, subpath |-> Empty, err |-> ErrNotExist]
  ELSE splitLookup(rts, name)

split(rts, name0) == splitResolve(rts, splitNormalize(name0))

(***************************************************************************)
(* MultiFS.Open: every result the call can give (the order of a global     *)
(* root's names is the map's iteration order), with the backend calls it   *)
(* made.                                                                   *)
(***************************************************************************)
BackendCall(f, op, name) == [fs |-> f, op |-> op, name |-> name]

\* mutant: the backend is given the whole cleaned name, identifier included
openResults_WholeName(rts, name) ==
  LET s == split(rts, name)
  IN IF s.err # Nil
     THEN {[file |-> NoFile, err |-> s.err, calls |-> <<>>]}
     ELSE IF s.id = Empty
     THEN {[file |-> newRootDir(names), err |-> Nil, calls |-> <<>>] :
             names \in idsSnapshot(rts)}
     ELSE
       LET r == getRoot(rts, s.id)
           whole == splitNormalize(name)
       IN IF ~r.ok
          THEN {[file |-> NoFile, err |-> ErrNotExist, calls |-> <<>>]}
          ELSE IF s.subpath = StrDot
          THEN {[file |-> newSnapshotRootDir(r.fs), err |-> Nil, calls |-> <<>>]}
          ELSE
            LET b == BackendOpen(r.fs, whole)
            IN {[file |-> b.file, err |-> b.err,
                 calls |-> <<BackendCall(r.fs, "Open", whole)>>]}

\* mutant: the ok of Open's own lookup is ignored
openLookup_IgnoreOk(rts, id) == [fs |-> getRoot(rts, id).fs, err |-> Nil]

\* Open's own lookup of the identifier split returned
openLookup(rts, id) ==
  LET r == getRoot(rts, id)
  IN IF ~r.ok
     THEN [fs |-> Nil, err |-> ErrNotExist]
     ELSE [fs |-> r.fs, err |-> Nil]

\* the end of Open, on the backend subfs it looked up
openServe(subfs, subpath) ==
  IF subpath = StrDot
  THEN [file |-> newSnapshotRootDir(subfs), err |-> Nil, calls |-> <<>>]
  ELSE
    LET b == BackendOpen(subfs, subpath)
    IN [file |-> b.file, err |-> b.err,
        calls |-> <<BackendCall(subfs, "Open", subpath)>>]

\* Open with no other call between its steps
openResults(rts, name) ==
  LET s == split(rts, name)
  IN IF s.err # Nil
     THEN {[file |-> NoFile, err |-> s.err, calls |-> <<>>]}
     ELSE IF s.id = Empty
     THEN {[file |-> newRootDir(names), err |-> Nil, calls |-> <<>>] :
             names \in idsSnapshot(rts)}
     ELSE
       LET l == openLookup(rts, s.id)
       IN IF l.err # Nil
          THEN {[file |-> NoFile, err |-> l.err, calls |-> <<>>]}
          ELSE {openServe(l.fs, s.subpath)}

(***************************************************************************)
(* The directory cursors.  Each ReadDir gives the handle after the call,   *)
(* the entries and error returned, and the backend calls made.             *)
(***************************************************************************)
\* the count ReadDir(n) serves when total entries are buffered and pos are read
Take(n, total, pos) == IF n <= 0 \/ n > total - pos THEN total - pos ELSE n

\* mutant: the end of the directory is signalled for every n
rootDir_ReadDir_EOFAlways(d, n) ==
  IF d.pos >= Len(d.names)
  THEN [file |-> d, entries |-> <<>>, err |-> EOF, calls |-> <<>>]
  ELSE
    LET k == Take(n, Len(d.names), d.pos)
    IN [file |-> [d EXCEPT !.pos = d.pos + k],
        entries |-> [i \in 1..k |-> dirEntry(d.names[d.pos + i])],
        err |-> Nil, calls |-> <<>>]

rootDir_ReadDir(d, n) ==
  IF d.pos >= Len(d.names) /\ n > 0
  THEN [file |-> d, entries |-> <<>>, err |-> EOF, calls |-> <<>>]
  ELSE
    LET k == Take(n, Len(d.names), d.pos)
    IN [file |-> [d EXCEPT !.pos = d.pos + k],
        entries |-> [i \in 1..k |-> dirEntry(d.names[d.pos + i])],
        err |-> Nil, calls |-> <<>>]

\* fs.ReadDir(backend, name): the backend's listing of one of its directories
\* isNil: the slice returned is nil (with an error, and from a backend that
\* returns a nil slice for a directory with no entries)
BackendReadDir(f, name) ==
  IF ~BackendHas(f, name)
  THEN [entries |-> <<>>, err |-> ErrBackendNotExist, isNil |-> TRUE]
  ELSE IF BackendNode(f, name).isDir
  THEN [entries |-> BackendNode(f, name).children, err |-> Nil,
        isNil |-> f \in NilListers /\ BackendNode(f, name).children = <<>>]
  ELSE [entries |-> <<>>, err |-> ErrNotDir, isNil |-> TRUE]

\* mutant: d.pos += n is missing
snapshotRootDir_ReadDir_NoAdvance(d0, n) ==
  LET fetch == d0.bufNil
      l == BackendReadDir(d0.fs, StrDot)
      calls == IF fetch THEN <<BackendCall(d0.fs, "ReadDir", StrDot)>> ELSE <<>>
  IN IF fetch /\ l.err # Nil
     THEN [file |-> d0, entries |-> <<>>, err |-> l.err, calls |-> calls]
     ELSE
       LET d == IF fetch
                THEN [d0 EXCEPT !.buf = l.entries, !.bufNil = l.isNil]
                ELSE d0
       IN IF d.pos >= Len(d.buf) /\ n > 0
          THEN [file |-> d, entries |-> <<>>, err |-> EOF, calls |-> calls]
          ELSE
            LET k == Take(n, Len(d.buf), d.pos)
            IN [file |-> d,
                entries |-> SubSeq(d.buf, d.pos + 1, d.pos + k),
                err |-> Nil, calls |-> calls]

snapshotRootDir_ReadDir(d0, n) ==
  LET fetch == d0.bufNil
      l == BackendReadDir(d0.fs, StrDot)
      calls == IF fetch THEN <<BackendCall(d0.fs, "ReadDir", StrDot)>> ELSE <<>>
  IN IF fetch /\ l.err # Nil
     THEN [file |-> d0, entries |-> <<>>, err |-> l.err, calls |-> calls]
     ELSE
       LET d == IF fetch
                THEN [d0 EXCEPT !.buf = l.entries, !.bufNil = l.isNil]
                ELSE d0
       IN IF d.pos >= Len(d.buf) /\ n > 0
          THEN [file |-> d, entries |-> <<>>, err |-> EOF, calls |-> calls]
          ELSE
            LET k == Take(n, Len(d.buf), d.pos)
            IN [file |-> [d EXCEPT !.pos = d.pos + k],
                entries |-> SubSeq(d.buf, d.pos + 1, d.pos + k),
                err |-> Nil, calls |-> calls]

(***************************************************************************)
(* MultiFS.Stat and MultiFS.ReadDir, over one result of Open.              *)
(***************************************************************************)
\* f.Stat() of an opened handle
fileStat(file) ==
  IF file.kind = "backend"
  THEN [name |-> Base(file.path),
        isDir |-> BackendNode(file.fs, file.path).isDir,
        mode |-> IF BackendNode(file.fs, file.path).isDir
                 THEN "ModeDir|0555" ELSE "0444",
        size |-> 0]
  ELSE dirInfo(StrDot)

statOf(o) ==
  IF o.err # Nil
  THEN [info |-> NoInfo, err |-> o.err, calls |-> o.calls]
  ELSE [info |-> fileStat(o.file), err |-> Nil,
        calls |-> IF o.file.kind = "backend"
                  THEN o.calls \o <<BackendCall(o.file.fs, "File.Stat", o.file.path),
                                    BackendCall(o.file.fs, "File.Close", o.file.path)>>
                  ELSE o.calls]

readDirOf(o) ==
  IF o.err # Nil
  THEN [entries |-> <<>>, err |-> o.err, calls |-> o.calls]
  ELSE CASE o.file.kind = "rootDir" ->
              LET r == rootDir_ReadDir(o.file, -1)
              IN [entries |-> r.entries, err |-> r.err, calls |-> o.calls \o r.calls]
         [] o.file.kind = "snapshotRootDir" ->
              LET r == snapshotRootDir_ReadDir(o.file, -1)
              IN [entries |-> r.entries, err |-> r.err, calls |-> o.calls \o r.calls]
         [] OTHER ->
              \* a backend file: a directory enumerates, a plain file does not
              IF BackendNode(o.file.fs, o.file.path).isDir
              THEN [entries |-> BackendNode(o.file.fs, o.file.path).children,
                    err |-> Nil,
                    calls |-> o.calls \o
                      <<BackendCall(o.file.fs, "File.ReadDir", o.file.path),
                        BackendCall(o.file.fs, "File.Close", o.file.path)>>]
              ELSE [entries |-> <<>>, err |-> ErrNotDir,
                    calls |-> o.calls \o
                      <<BackendCall(o.file.fs, "File.Close", o.file.path)>>]

(***************************************************************************)
(* Inputs.                                                                 *)
(***************************************************************************)
\* the identifiers callers pass to Mount and Unmount
MountIds ==
  { <<"a">>, <<"b">>, <<".">>, <<".", ".">>, <<"/", "a", "/">>, <<"a", "/">>,
    Empty, <<"/">>, <<"a", "/", "b">> }

\* the (identifier, backend) pairs callers pass to Mount, the absent backend
\* included; the identifiers "." and ".." are mounted with fs1 only
MountArgs ==
  ((MountIds \ {StrDot, StrDotDot}) \X (Backends \cup {Nil}))
    \cup ({StrDot, StrDotDot} \X {"fs1", Nil})

\* the segments caller paths are made of
PathSegs == { Empty, <<".">>, <<".", ".">>, <<"a">>, <<"b">> }

SegSeqs == UNION {[1..n -> PathSegs] : n \in 1..MaxSegs}

\* longer paths that the tests and the specification name, with one-letter
\* identifiers: "one/../../escape", "id/sub/../x", "one/sub/../../other"
LongPaths ==
  { <<"a", "/", ".", ".", "/", ".", ".", "/", "b">>,
    <<"a", "/", "b", "/", ".", ".", "/", "a">>,
    <<"a", "/", "b", "/", ".", ".", "/", ".", ".", "/", "b">> }

Paths == {Join(q) : q \in SegSeqs} \cup LongPaths

(***************************************************************************)
(* State.  roots is the mount table.  pc is the caller's position: "idle"  *)
(* between calls, "returned" while it holds the result of the call in      *)
(* last (with the table before the call in last.pre).  mounted is history: *)
(* for each identifier, the backend of its latest successful Mount, or Nil *)
(* once a successful Unmount followed it.                                  *)
(***************************************************************************)
NoCall ==
  [op |-> "none", name |-> Empty, fs |-> Nil, err |-> Nil, file |-> NoFile,
   info |-> NoInfo, entries |-> <<>>, calls |-> <<>>, pre |-> <<>>]

\* what one ReadDir on the caller's directory handle returned: the count
\* asked for, the entries and error, the handle as it was before the call,
\* and the backend the table held for the opened identifier during the call
NoRes ==
  [n |-> 0, entries |-> <<>>, err |-> Nil, before |-> NoFile, nowFs |-> Nil]

\* the directory handle a caller holds (h), with its history: the path it
\* was opened by, the backend and the identifiers the table held then, the
\* ReadDir calls made on it, the backend listings they fetched, and all the
\* entries they returned, in order
NoCur ==
  [h |-> NoFile, name |-> Empty, fsAtOpen |-> Nil, idsAtOpen |-> {},
   reads |-> 0, fetches |-> 0, got |-> <<>>, res |-> NoRes]

\* an Open in flight beside Mount and Unmount calls of other goroutines
NoConc ==
  [pc |-> "idle", name |-> Empty, id |-> Empty, subpath |-> Empty,
   fs |-> Nil, err |-> Nil, file |-> NoFile, calls |-> <<>>,
   during |-> {}, steps |-> 0]

Init ==
  /\ roots = NewMultiFS
  /\ pc = "idle"
  /\ last = NoCall
  /\ mounted = <<>>
  /\ cur = NoCur
  /\ conc = NoConc

Mount(id, f) ==
  /\ pc = "idle"
  /\ LET r == mountTable(roots, id, f)
     IN /\ roots' = r.roots
        /\ mounted' = IF r.err = Nil THEN Put(mounted, Trim(id), f) ELSE mounted
        /\ last' = [NoCall EXCEPT !.op = "Mount", !.name = id, !.fs = f,
                                  !.err = r.err, !.pre = roots]
  /\ pc' = "returned"
  /\ UNCHANGED <<cur, conc>>

Unmount(id) ==
  /\ pc = "idle"
  /\ LET r == unmountTable(roots, id)
     IN /\ roots' = r.roots
        /\ mounted' = IF r.err = Nil THEN Put(mounted, id, Nil) ELSE mounted
        /\ last' = [NoCall EXCEPT !.op = "Unmount", !.name = id,
                                  !.err = r.err, !.pre = roots]
  /\ pc' = "returned"
  /\ UNCHANGED <<cur, conc>>

Open(name) ==
  /\ pc = "idle"
  /\ \E o \in openResults(roots, name) :
       last' = [NoCall EXCEPT !.op = "Open", !.name = name, !.err = o.err,
                              !.file = o.file, !.calls = o.calls, !.pre = roots]
  /\ pc' = "returned"
  /\ UNCHANGED <<roots, mounted, cur, conc>>

Stat(name) ==
  /\ pc = "idle"
  /\ \E o \in openResults(roots, name) :
       LET r == statOf(o)
       IN last' = [NoCall EXCEPT !.op = "Stat", !.name = name, !.err = r.err,
                                 !.info = r.info, !.calls = r.calls, !.pre = roots]
  /\ pc' = "returned"
  /\ UNCHANGED <<roots, mounted, cur, conc>>

\* the names of a listing, as a set
NameSet(entries) == {entries[i].name : i \in DOMAIN entries}

ReadDir(name) ==
  /\ pc = "idle"
  /\ \E o \in openResults(roots, name) :
       LET r == readDirOf(o)
       IN last' = [NoCall EXCEPT !.op = "ReadDir", !.name = name,
                                 !.err = r.err, !.entries = r.entries,
                                 !.calls = r.calls, !.pre = roots]
  /\ pc' = "returned"
  /\ UNCHANGED <<roots, mounted, cur, conc>>

\* the caller takes the result; nothing of the call remains
Return ==
  /\ pc = "returned"
  /\ pc' = "idle"
  /\ last' = NoCall
  /\ UNCHANGED <<roots, mounted, cur, conc>>

\* a caller makes its next call once it has taken the previous result
Next ==
  \/ pc = "idle" /\ \E a \in MountArgs : Mount(a[1], a[2])
  \/ pc = "idle" /\ \E id \in MountIds : Unmount(id)
  \/ pc = "idle" /\ \E name \in Paths : Open(name)
  \/ pc = "idle" /\ \E name \in Paths : Stat(name)
  \/ pc = "idle" /\ \E name \in Paths : ReadDir(name)
  \/ Return

Spec == Init /\ [][Next]_vars

(***************************************************************************)
(* A caller that keeps a directory handle: it opens the global root or a   *)
(* mount root, reads it in pieces, and mounts and unmounts in between.     *)
(***************************************************************************)
\* the backends of the table rts
Range(rts) == {rts[k] : k \in DOMAIN rts}

\* mutant: a mount-root handle is refused once its backend is not mounted
fileReadDir_Relookup(rts, h, n) ==
  IF h.kind = "rootDir" THEN rootDir_ReadDir(h, n)
  ELSE IF h.fs \notin Range(rts)
  THEN [file |-> h, entries |-> <<>>, err |-> ErrNotExist, calls |-> <<>>]
  ELSE snapshotRootDir_ReadDir(h, n)

\* h.ReadDir(n) on a synthetic directory handle, called while the table is
\* rts: the handle holds its names or its backend and never reads the table
fileReadDir(rts, h, n) ==
  IF h.kind = "rootDir" THEN rootDir_ReadDir(h, n)
  ELSE snapshotRootDir_ReadDir(h, n)

DirKinds == {"rootDir", "snapshotRootDir"}

\* the identifiers and backends this caller mounts
DirMountArgs ==
  ({<<"a">>} \X {"fs1", "fs3", "fs4"}) \cup ({<<"b">>} \X {"fs2", "fs5"})

DirIds == {<<"a">>, <<"b">>}

\* the directories it opens
DirPaths == {StrDot, <<"a">>, <<"b">>}

\* the counts it passes to ReadDir
ReadCounts == {-1, 0, 1, 2, 3}

\* f, err := m.Open(name), the handle kept
OpenDir(name) ==
  /\ pc = "idle"
  /\ \E o \in openResults(roots, name) :
       cur' = IF o.err = Nil
              THEN [NoCur EXCEPT !.h = o.file, !.name = name,
                                 !.fsAtOpen = getRoot(roots, name).fs,
                                 !.idsAtOpen = DOMAIN roots]
              ELSE NoCur
  /\ UNCHANGED <<roots, pc, last, mounted, conc>>

\* entries, err := f.ReadDir(n) on the kept handle
FileReadDir(n) ==
  /\ pc = "idle"
  /\ cur.h.kind \in DirKinds
  /\ cur.reads < MaxReads
  /\ LET r == fileReadDir(roots, cur.h, n)
     IN cur' = [cur EXCEPT !.h = r.file,
                           !.reads = @ + 1,
                           !.fetches = @ + Len(r.calls),
                           !.got = @ \o r.entries,
                           !.res = [n |-> n, entries |-> r.entries,
                                    err |-> r.err, before |-> cur.h,
                                    nowFs |-> getRoot(roots, cur.name).fs]]
  /\ UNCHANGED <<roots, pc, last, mounted, conc>>

NextDir ==
  \/ pc = "idle" /\ \E a \in DirMountArgs : Mount(a[1], a[2])
  \/ pc = "idle" /\ \E id \in DirIds : Unmount(id)
  \/ Return
  \/ \E name \in DirPaths : OpenDir(name)
  \/ \E n \in ReadCounts : FileReadDir(n)

SpecDir == Init /\ [][NextDir]_vars

(***************************************************************************)
(* One goroutine in Open while another mounts and unmounts.  Each lock     *)
(* section of the code is one step: split's lookup (getRoot under RLock),  *)
(* Open's own lookup (getRoot or idsSnapshot under RLock), and the table   *)
(* update of Mount and of Unmount (under Lock).  The backend's Open runs   *)
(* with no lock held.                                                      *)
(***************************************************************************)
\* the identifier split cuts from name
CutId(name) == SplitN2(splitNormalize(name))[1]

\* the backend under id in rts, Nil when there is none
At(rts, id) == getRoot(rts, id).fs

\* the Open call has begun and has not returned
InFlight == conc.pc \in {"called", "split", "got"}

\* what the identifier of the call in flight has been mapped to
Seen(rts) ==
  IF InFlight THEN conc.during \cup {At(rts, CutId(conc.name))}
  ELSE conc.during

ConcMountArgs == ({<<"a">>} \X Backends) \cup {<<<<"b">>, "fs1">>}

ConcIds == {<<"a">>, <<"b">>}

ConcPaths ==
  {StrDot, <<"a">>, <<"a", "/", "a">>, <<"a", "/", "b">>,
   <<"b", "/", "a">>, <<"/", "a", "/", "a">>}

\* m.Open(name) is entered
ConcCall(name) ==
  /\ conc.pc = "idle"
  /\ conc' = [NoConc EXCEPT !.pc = "called", !.name = name,
                            !.during = {At(roots, CutId(name))}]
  /\ UNCHANGED <<roots, pc, last, mounted, cur>>

\* id, subpath, err := m.split(name)
ConcSplit ==
  /\ conc.pc = "called"
  /\ LET s == split(roots, conc.name)
     IN conc' = [conc EXCEPT !.pc = IF s.err # Nil THEN "done" ELSE "split",
                             !.id = s.id, !.subpath = s.subpath,
                             !.err = s.err, !.steps = @ + 1]
  /\ UNCHANGED <<roots, pc, last, mounted, cur>>

\* m.idsSnapshot() for the root, subfs, ok := m.getRoot(id) otherwise
ConcLookup ==
  /\ conc.pc = "split"
  /\ IF conc.id = Empty
     THEN \E names \in idsSnapshot(roots) :
            conc' = [conc EXCEPT !.pc = "done", !.file = newRootDir(names),
                                 !.steps = @ + 1]
     ELSE LET l == openLookup(roots, conc.id)
          IN conc' = [conc EXCEPT !.pc = IF l.err # Nil THEN "done" ELSE "got",
                                  !.fs = l.fs, !.err = l.err, !.steps = @ + 1]
  /\ UNCHANGED <<roots, pc, last, mounted, cur>>

\* newSnapshotRootDir(subfs) or subfs.Open(subpath)
ConcServe ==
  /\ conc.pc = "got"
  /\ LET r == openServe(conc.fs, conc.subpath)
     IN conc' = [conc EXCEPT !.pc = "done", !.file = r.file, !.err = r.err,
                             !.calls = r.calls]
  /\ UNCHANGED <<roots, pc, last, mounted, cur>>

\* the caller takes the result
ConcReturn ==
  /\ conc.pc = "done"
  /\ conc' = NoConc
  /\ UNCHANGED <<roots, pc, last, mounted, cur>>

\* m.Mount(id, f) in the other goroutine
ConcMount(id, f) ==
  /\ roots' = mountTable(roots, id, f).roots
  /\ conc' = [conc EXCEPT !.during = Seen(roots')]
  /\ UNCHANGED <<pc, last, mounted, cur>>

\* m.Unmount(id) in the other goroutine
ConcUnmount(id) ==
  /\ roots' = unmountTable(roots, id).roots
  /\ conc' = [conc EXCEPT !.during = Seen(roots')]
  /\ UNCHANGED <<pc, last, mounted, cur>>

NextConc ==
  \/ \E name \in ConcPaths : ConcCall(name)
  \/ ConcSplit
  \/ ConcLookup
  \/ ConcServe
  \/ ConcReturn
  \/ \E a \in ConcMountArgs : ConcMount(a[1], a[2])
  \/ \E id \in ConcIds : ConcUnmount(id)

SpecConc == Init /\ [][NextConc]_vars

(***************************************************************************)
(* Vocabulary of the properties.                                           *)
(***************************************************************************)
Returned(op) == pc = "returned" /\ last.op = op

ReadOps == {"Open", "Stat", "ReadDir"}

\* the cleaned path with one leading separator stripped
Rel(name) == TrimPrefix(Clean(name), StrSlash)

\* the path denotes the global root
IsRootPath(name) == Rel(name) \in {Empty, StrDot}

\* the first segment of the cleaned path
FirstSeg(name) == Segments(Rel(name))[1]

\* the cleaned path is id itself or lies below id
Under(name, id) == Rel(name) = id \/ HasPrefix(Rel(name), id \o StrSlash)

\* id/rest as a caller writes it
Sub(id, rest) == id \o StrSlash \o rest

\* identifiers that are ordinary names
IsName(id) == id # Empty /\ ~ContainsSep(id) /\ id \notin {StrDot, StrDotDot}

\* what a lookup answers
Found(f) == [fs |-> f, ok |-> TRUE]
Absent == [fs |-> Nil, ok |-> FALSE]

LookupIds == MountIds \cup {Trim(i) : i \in MountIds} \cup DOMAIN roots

(***************************************************************************)
(* C1: after any sequence of Mount and Unmount calls, a lookup of an       *)
(* identifier returns the backend of its most recent successful Mount that *)
(* no successful Unmount followed, and absent otherwise; an identifier has *)
(* one backend at most, and mounting it again replaces the backend.        *)
(***************************************************************************)
C1_LookupFollowsHistory ==
  \A id \in LookupIds :
    getRoot(roots, id) =
      IF id \in DOMAIN mounted /\ mounted[id] # Nil
      THEN Found(mounted[id]) ELSE Absent

\* a Mount has just replaced the backend of a mounted identifier
C1_Witness ==
  /\ Returned("Mount") /\ last.err = Nil
  /\ Trim(last.name) \in DOMAIN last.pre
  /\ last.pre[Trim(last.name)] # last.fs
  /\ getRoot(roots, Trim(last.name)) = Found(last.fs)

(***************************************************************************)
(* C2: when a path resolves to (id, subpath) with subpath other than ".",  *)
(* Open makes exactly one call, Open(subpath) on the backend mounted under *)
(* id, and returns that call's file and error unchanged; a file of the     *)
(* backend mounted as the name id, opened as id/<path>, is that backend's  *)
(* file <path>, with its content.                                          *)
(***************************************************************************)
Content(file) == BackendNode(file.fs, file.path).data

C2_OpenDelegates ==
  Returned("Open") =>
    /\ LET s == split(last.pre, last.name)
       IN (s.err = Nil /\ s.id # Empty /\ s.subpath # StrDot) =>
            LET b == BackendOpen(last.pre[s.id], s.subpath)
            IN /\ last.calls = <<BackendCall(last.pre[s.id], "Open", s.subpath)>>
               /\ last.file = b.file
               /\ last.err = b.err
    /\ \A id \in DOMAIN last.pre :
         \A n \in BackendTree(last.pre[id]) :
           (IsName(id) /\ n.path # StrDot /\ last.name = Sub(id, n.path)) =>
             /\ last.err = Nil
             /\ last.file = BackendFile(last.pre[id], n.path)
             /\ Content(last.file) = n.data

\* Open("a/b/a") has returned the file b/a of the backend mounted as a
C2_Witness ==
  /\ Returned("Open") /\ last.err = Nil
  /\ last.name = <<"a", "/", "b", "/", "a">>
  /\ last.file.kind = "backend" /\ last.file.path = <<"b", "/", "a">>
  /\ Content(last.file) = "bar in fs1"

(***************************************************************************)
(* C3: a full read of the global root (ReadDir of ".", "" or "/") returns  *)
(* exactly the mounted identifiers, each once, each a directory, and       *)
(* leaves the table as it was - so two such reads with no Mount or Unmount *)
(* between them return the same set.                                       *)
(***************************************************************************)
RootNames == {StrDot, Empty, StrSlash}

C3_RootListsMounted ==
  (Returned("ReadDir") /\ last.name \in RootNames) =>
    /\ last.err = Nil
    /\ roots = last.pre
    /\ NameSet(last.entries) = DOMAIN roots
    /\ Len(last.entries) = Cardinality(DOMAIN roots)
    /\ \A i \in DOMAIN last.entries : last.entries[i].isDir

\* the root has been read with two identifiers mounted
C3_Witness ==
  /\ Returned("ReadDir") /\ last.name = Empty
  /\ NameSet(last.entries) = {<<"a">>, <<"b">>}

(***************************************************************************)
(* C4: for an identifier string id that Mount accepted, Unmount(id) with   *)
(* the same string right after Mount(id, b) succeeds and leaves id absent. *)
(* Stated on the state a successful Mount leaves, for the Unmount that     *)
(* follows it.                                                             *)
(***************************************************************************)
C4_MountThenUnmount ==
  (Returned("Mount") /\ last.err = Nil) =>
    LET u == unmountTable(roots, last.name)
    IN /\ u.err = Nil
       /\ getRoot(u.roots, last.name) = Absent
       /\ getRoot(u.roots, Trim(last.name)) = Absent

(***************************************************************************)
(* C5: Open, Stat and ReadDir of a path other than the root whose first    *)
(* segment (after cleaning and stripping a leading separator) is not       *)
(* mounted fail with NotFound and call no backend; once Unmount(id) has    *)
(* returned and until id is mounted again, so does every path whose        *)
(* cleaned form is id or lies below id.                                    *)
(***************************************************************************)
Unmounted == {id \in DOMAIN mounted : mounted[id] = Nil}

C5_UnknownIdNotFound ==
  (pc = "returned" /\ last.op \in ReadOps /\ ~IsRootPath(last.name)) =>
    /\ FirstSeg(last.name) \notin DOMAIN last.pre =>
         last.err = ErrNotExist /\ last.calls = <<>>
    /\ \A id \in Unmounted :
         Under(last.name, id) => last.err = ErrNotExist /\ last.calls = <<>>

\* Open("a/b/a") has failed after a was mounted and unmounted
C5_Witness ==
  /\ Returned("Open") /\ last.err = ErrNotExist
  /\ last.name = <<"a", "/", "b", "/", "a">>
  /\ <<"a">> \in Unmounted

\* the claim as stated: after Unmount(id), every Open("id/<anything>") fails
\* with NotFound until id is mounted again
C5_Original ==
  Returned("Open") =>
    \A id \in Unmounted :
      HasPrefix(last.name, id \o StrSlash) => last.err = ErrNotExist

(***************************************************************************)
(* C6: Mount(id, backend) fails exactly when id, trimmed of leading and    *)
(* trailing separators, is empty or still holds a separator, or when the   *)
(* backend is absent; a failed Mount leaves the table unchanged, and every *)
(* other Mount succeeds and stores the backend under the trimmed id.       *)
(***************************************************************************)
C6_MountFailsExactly ==
  Returned("Mount") =>
    LET id == Trim(last.name)
        bad == id = Empty \/ ContainsSep(id) \/ last.fs = Nil
    IN /\ (last.err # Nil) <=> bad
       /\ bad => roots = last.pre
       /\ ~bad => getRoot(roots, id) = Found(last.fs)

\* Mount("/a/", fs) has stored fs under "a"
C6_Witness ==
  /\ Returned("Mount") /\ last.err = Nil
  /\ last.name = <<"/", "a", "/">>
  /\ <<"a">> \notin DOMAIN last.pre
  /\ getRoot(roots, <<"a">>) = Found(last.fs)

(***************************************************************************)
(* C7: the table changes only through a successful Mount or Unmount: Open, *)
(* Stat and ReadDir, and Unmount of an identifier that is not mounted      *)
(* (which fails with NotFound), leave every mapping unchanged; a           *)
(* successful Mount or Unmount changes the mapping of its identifier only. *)
(***************************************************************************)
\* the tables t and u agree on every identifier other than id
SameExcept(t, u, id) ==
  \A k \in ((DOMAIN t) \cup (DOMAIN u)) \ {id} : getRoot(t, k) = getRoot(u, k)

C7_TableFrame ==
  pc = "returned" =>
    /\ last.op \in ReadOps => roots = last.pre
    /\ roots # last.pre => last.op \in {"Mount", "Unmount"} /\ last.err = Nil
    /\ (last.op = "Unmount" /\ last.name \notin DOMAIN last.pre) =>
         last.err = ErrNotExist /\ roots = last.pre
    /\ (last.op = "Unmount" /\ last.err = Nil) =>
         SameExcept(last.pre, roots, last.name)
    /\ (last.op = "Mount" /\ last.err = Nil) =>
         SameExcept(last.pre, roots, Trim(last.name))

\* Unmount of one of two mounted identifiers has left the other mounted
C7_Witness ==
  /\ Returned("Unmount") /\ last.err = Nil
  /\ Cardinality(DOMAIN last.pre) = 2
  /\ Cardinality(DOMAIN roots) = 1

(***************************************************************************)
(* C8: Open of a path whose cleaned form is ".." or begins with "../"      *)
(* fails with NotFound and calls no backend, whatever is mounted.          *)
(***************************************************************************)
Escapes(name) ==
  Clean(name) = StrDotDot \/ HasPrefix(Clean(name), StrDotDotSlash)

C8_EscapeNotFound ==
  (Returned("Open") /\ Escapes(last.name)) =>
    last.err = ErrNotExist /\ last.calls = <<>> /\ last.file = NoFile

\* Open("a/../../b") has failed with a, b and ".." mounted
C8_Witness ==
  /\ Returned("Open") /\ last.err = ErrNotExist
  /\ last.name = <<"a", "/", ".", ".", "/", ".", ".", "/", "b">>
  /\ {<<"a">>, <<"b">>, StrDotDot} \subseteq DOMAIN last.pre

(***************************************************************************)
(* C9: Open of an absolute path that names something other than the root   *)
(* fails with NotFound when its first segment is not mounted; a leading    *)
(* separator by itself fails nothing: "/id" with id mounted opens the root *)
(* of mount id.                                                            *)
(***************************************************************************)
IsAbsolute(name) == HasPrefix(name, StrSlash) /\ ~IsRootPath(name)

C9_AbsoluteByFirstSegment ==
  (Returned("Open") /\ IsAbsolute(last.name)) =>
    /\ FirstSeg(last.name) \notin DOMAIN last.pre => last.err = ErrNotExist
    /\ \A id \in DOMAIN last.pre :
         last.name = StrSlash \o id =>
           last.err = Nil /\ last.file = newSnapshotRootDir(last.pre[id])

\* Open("/a") has failed with only b mounted
C9_Witness ==
  /\ Returned("Open") /\ last.err = ErrNotExist
  /\ last.name = <<"/", "a">>
  /\ DOMAIN last.pre = {<<"b">>}

\* the claim as stated: Open of an absolute path other than the root fails
C9_Original ==
  (Returned("Open") /\ IsAbsolute(last.name)) => last.err # Nil

(***************************************************************************)
(* C10: with id mounted, Open("id/../x") for a name x fails with NotFound  *)
(* when x is not mounted; when x is mounted and id is an ordinary name the *)
(* path is resolved as "x" and opens the root of mount x.                  *)
(***************************************************************************)
\* the names x of the paths id/../x
OtherNames == {n \in PathSegs : IsName(n)}

UpAndOver(id, x) == id \o StrSlash \o StrDotDot \o StrSlash \o x

C10_DotDotResolvesAsCleaned ==
  Returned("Open") =>
    \A id \in DOMAIN last.pre : \A x \in OtherNames :
      last.name = UpAndOver(id, x) =>
        /\ x \notin DOMAIN last.pre => last.err = ErrNotExist
        /\ (x \in DOMAIN last.pre /\ IsName(id)) =>
             last.err = Nil /\ last.file = newSnapshotRootDir(last.pre[x])

\* Open("a/../b") has failed with a mounted and b not
C10_Witness ==
  /\ Returned("Open") /\ last.err = ErrNotExist
  /\ last.name = UpAndOver(<<"a">>, <<"b">>)
  /\ DOMAIN last.pre = {<<"a">>}

\* the claim as stated, for another top-level name x: with id mounted,
\* Open("id/../x") fails
C10_Original ==
  Returned("Open") =>
    \A id \in DOMAIN last.pre : \A x \in OtherNames \ {id} :
      last.name = UpAndOver(id, x) => last.err # Nil

(***************************************************************************)
(* C11: for a path p whose cleaned form is neither ".." nor begins with    *)
(* "../", "/" + p and p resolve identically in every state of the table:   *)
(* both are the root, or both give the same (id, subpath), or both fail    *)
(* with the same error; Open serves "/" + p as it serves p.                *)
(***************************************************************************)
\* what the call in last returned
Outcome == [file |-> last.file, err |-> last.err, calls |-> last.calls]

C11_LeadingSlashSame ==
  (Returned("Open") /\ HasPrefix(last.name, StrSlash)
     /\ ~Escapes(Tail(last.name))) =>
    /\ split(last.pre, last.name) = split(last.pre, Tail(last.name))
    /\ Outcome \in openResults(last.pre, Tail(last.name))

\* Open("/a/b") has been delegated to the backend mounted as a
C11_Witness ==
  /\ Returned("Open") /\ last.err = Nil
  /\ last.name = <<"/", "a", "/", "b">>
  /\ last.calls = <<BackendCall(getRoot(last.pre, <<"a">>).fs, "Open", <<"b">>)>>

\* the claim as stated: "/" + p resolves as p does, for every path p
C11_Original ==
  (Returned("Open") /\ HasPrefix(last.name, StrSlash)) =>
    split(last.pre, last.name) = split(last.pre, Tail(last.name))

(***************************************************************************)
(* C16: every relative path that Open hands to a backend's Open is cleaned *)
(* and traversal-free: not empty, not ".", without leading or trailing     *)
(* separator and without an empty, "." or ".." segment.                    *)
(***************************************************************************)
ValidSub(s) ==
  /\ s # Empty /\ s # StrDot
  /\ Head(s) # Sep /\ s[Len(s)] # Sep
  /\ \A i \in DOMAIN Segments(s) :
       Segments(s)[i] \notin {Empty, StrDot, StrDotDot}

C16_BackendPathsClean ==
  (pc = "returned" /\ last.op \in ReadOps) =>
    \A i \in DOMAIN last.calls :
      last.calls[i].op = "Open" => ValidSub(last.calls[i].name)

\* Open("a//b") has handed "b" to the backend mounted as a
C16_Witness ==
  /\ Returned("Open")
  /\ last.name = <<"a", "/", "/", "b">>
  /\ last.calls = <<BackendCall(getRoot(last.pre, <<"a">>).fs, "Open", <<"b">>)>>

(***************************************************************************)
(* C17: resolution depends on the cleaned path only, and ".." is checked   *)
(* on the whole cleaned path before the identifier is cut off: with the    *)
(* name id mounted, "id/sub/../x" resolves to (id, "x"); "a/sub/../../b"   *)
(* resolves as "b" does - the root of mount b when b is mounted, NotFound  *)
(* when it is not - whether or not a is mounted.                           *)
(***************************************************************************)
UpWithin(id, sub, x) ==
  id \o StrSlash \o sub \o StrSlash \o StrDotDot \o StrSlash \o x

UpTwice(a, sub, b) ==
  a \o StrSlash \o sub \o StrSlash \o StrDotDot \o StrSlash \o StrDotDot
    \o StrSlash \o b

C17_ResolvesCleaned ==
  Returned("Open") =>
    /\ Outcome \in openResults(last.pre, Clean(last.name))
    /\ \A id, sub, x \in OtherNames :
         (id \in DOMAIN last.pre /\ last.name = UpWithin(id, sub, x)) =>
           /\ split(last.pre, last.name) =
                [id |-> id, subpath |-> x, err |-> Nil]
           /\ last.calls = <<BackendCall(last.pre[id], "Open", x)>>
    /\ \A a, sub, b \in OtherNames :
         last.name = UpTwice(a, sub, b) =>
           IF b \in DOMAIN last.pre
           THEN last.err = Nil /\ last.file = newSnapshotRootDir(last.pre[b])
           ELSE last.err = ErrNotExist /\ last.calls = <<>>

\* Open("a/b/../../b") has opened the root of mount b with a not mounted
C17_Witness ==
  /\ Returned("Open") /\ last.err = Nil
  /\ last.name = UpTwice(<<"a">>, <<"b">>, <<"b">>)
  /\ <<"a">> \notin DOMAIN last.pre
  /\ last.file = newSnapshotRootDir(getRoot(last.pre, <<"b">>).fs)

(***************************************************************************)
(* C19: in every reachable state every key of the table is a non-empty     *)
(* string without a separator (so without a leading or trailing one), and  *)
(* maps to a present backend.                                              *)
(***************************************************************************)
C19_KeysWellFormed ==
  \A k \in DOMAIN roots :
    /\ k # Empty
    /\ ~ContainsSep(k)
    /\ roots[k] # Nil /\ roots[k] \in Backends

\* Mount("/a/", fs) has succeeded
C19_Witness ==
  /\ Returned("Mount") /\ last.err = Nil
  /\ last.name = <<"/", "a", "/">>
  /\ DOMAIN roots = {<<"a">>}

(***************************************************************************)
(* C20: every mounted identifier is reachable: for each id that Mount      *)
(* accepted and that is still mounted, Open(id) returns a mount-root       *)
(* handle over its backend, and Open(id/p) is delegated to that backend.   *)
(***************************************************************************)
C20_MountedReachable ==
  Returned("Open") =>
    \A id \in DOMAIN last.pre :
      /\ last.name = id =>
           last.err = Nil /\ last.file = newSnapshotRootDir(last.pre[id])
      /\ \A n \in BackendTree(last.pre[id]) :
           (n.path # StrDot /\ last.name = Sub(id, n.path)) =>
             last.calls = <<BackendCall(last.pre[id], "Open", n.path)>>

(***************************************************************************)
(* Vocabulary of the directory handles.                                    *)
(***************************************************************************)
\* the backend's own top-level listing
Listing(f) == BackendReadDir(f, StrDot)

\* the entries a handle enumerates: the names it was made with, or its
\* backend's listing (none when the backend cannot be listed)
Buffer(h) ==
  IF h.kind = "rootDir" THEN [i \in DOMAIN h.names |-> dirEntry(h.names[i])]
  ELSE IF ~h.bufNil THEN h.buf
  ELSE IF Listing(h.fs).err = Nil THEN Listing(h.fs).entries
  ELSE <<>>

\* the handle can enumerate (its backend's listing is there or can be had)
Listable(h) == h.kind = "rootDir" \/ ~h.bufNil \/ Listing(h.fs).err = Nil

\* the read position is at the end of the entries
Exhausted(h) == h.kind \in DirKinds /\ Listable(h) /\ h.pos >= Len(Buffer(h))

Min(x, y) == IF x <= y THEN x ELSE y

HasRead == cur.h.kind \in DirKinds /\ cur.reads > 0

(***************************************************************************)
(* C12: for both directory cursors, once the read position is at the end   *)
(* of the entries (a directory with no entries included), every ReadDir(n) *)
(* with n > 0 returns io.EOF and no entries, every ReadDir(n) with n <= 0  *)
(* returns no entries and no error, and the handle stays at the end.       *)
(***************************************************************************)
C12_ExhaustedReads ==
  (HasRead /\ Exhausted(cur.res.before)) =>
    /\ cur.res.entries = <<>>
    /\ cur.res.n > 0 => cur.res.err = EOF
    /\ cur.res.n <= 0 => cur.res.err = Nil
    /\ Exhausted(cur.h)

\* the third read of a mount-root handle, with n = 0, after it was exhausted
C12_Witness ==
  /\ HasRead /\ cur.h.kind = "snapshotRootDir" /\ cur.reads = 3
  /\ Len(cur.got) = 2
  /\ Exhausted(cur.res.before) /\ cur.res.n = 0 /\ cur.res.err = Nil

(***************************************************************************)
(* C13: for each mount-root handle the backend's listing is fetched        *)
(* exactly once, on the first ReadDir and not at Open, whatever number of  *)
(* ReadDir calls follow and whatever the fetch returned.                   *)
(***************************************************************************)
C13_FetchedOnce ==
  cur.h.kind = "snapshotRootDir" =>
    cur.fetches = IF cur.reads = 0 THEN 0 ELSE 1

(***************************************************************************)
(* C14: a handle is unaffected by later Mount and Unmount calls: a         *)
(* mount-root handle lists the entries of the backend that was mounted     *)
(* when it was opened, also when its first read comes after the identifier *)
(* was unmounted or mounted anew, and a global-root handle lists the       *)
(* identifiers that were mounted when it was opened.                       *)
(***************************************************************************)
IsPrefix(p, q) == Len(p) <= Len(q) /\ p = SubSeq(q, 1, Len(p))

C14_HandleKeepsBackend ==
  /\ cur.h.kind = "snapshotRootDir" =>
       /\ cur.h.fs = cur.fsAtOpen
       /\ HasRead =>
            IF Listing(cur.fsAtOpen).err = Nil
            THEN /\ cur.res.err \in {Nil, EOF}
                 /\ IsPrefix(cur.got, Listing(cur.fsAtOpen).entries)
                 /\ cur.res.n <= 0 => cur.got = Listing(cur.fsAtOpen).entries
            ELSE cur.res.err = Listing(cur.fsAtOpen).err /\ cur.got = <<>>
  /\ cur.h.kind = "rootDir" =>
       /\ NameSet(Buffer(cur.h)) = cur.idsAtOpen
       /\ Len(cur.h.names) = Cardinality(cur.idsAtOpen)
       /\ IsPrefix(cur.got, Buffer(cur.h))
       /\ (HasRead /\ cur.res.n <= 0) => cur.got = Buffer(cur.h)

\* the first read of a handle opened on a (fs1) came after a was unmounted
\* or mounted with another backend, and listed fs1
C14_Witness ==
  /\ HasRead /\ cur.h.kind = "snapshotRootDir" /\ cur.reads = 1
  /\ cur.fsAtOpen = "fs1" /\ cur.res.nowFs # "fs1"
  /\ cur.got = Listing("fs1").entries

(***************************************************************************)
(* C18: for both cursors and any sequence of ReadDir(n) calls the read     *)
(* position stays between 0 and the number of entries and never goes back; *)
(* a call with n > 0 returns min(n, remaining) entries and advances the    *)
(* position by that count, a call with n <= 0 returns all that remain; the *)
(* results, concatenated, are a prefix of the entries in their order.      *)
(***************************************************************************)
C18_CursorAdvances ==
  cur.h.kind \in DirKinds =>
    /\ cur.h.pos \in 0..Len(Buffer(cur.h))
    /\ cur.got = SubSeq(Buffer(cur.h), 1, cur.h.pos)
    /\ HasRead =>
         LET b == cur.res.before
             remaining == Len(Buffer(b)) - b.pos
             k == Len(cur.res.entries)
         IN /\ cur.h.pos = b.pos + k
            /\ cur.res.entries = SubSeq(Buffer(b), b.pos + 1, b.pos + k)
            /\ (cur.res.n > 0 /\ Listable(b)) => k = Min(cur.res.n, remaining)
            /\ (cur.res.n <= 0 /\ Listable(b)) => k = remaining

\* two reads of one entry each have returned the two entries of a listing
C18_Witness ==
  /\ HasRead /\ cur.h.kind = "snapshotRootDir" /\ cur.reads = 2
  /\ cur.res.n = 1 /\ cur.res.before.pos = 1 /\ cur.h.pos = 2
  /\ cur.got = Listing(cur.h.fs).entries

(***************************************************************************)
(* C15: Open("id/sub") while another goroutine unmounts id or mounts it    *)
(* anew: under every interleaving of the lock-protected steps, Open either *)
(* fails with NotFound, having called no backend, or it is served by a     *)
(* backend that was mounted under id at some instant of the call; it never *)
(* uses an absent backend.                                                 *)
(***************************************************************************)
\* the path below the identifier in the cleaned name
SubOf(name) ==
  LET parts == SplitN2(Rel(name))
  IN IF Len(parts) = 1 THEN StrDot ELSE parts[2]

C15_OpenServedOrNotFound ==
  (conc.pc = "done" /\ ~IsRootPath(conc.name)) =>
    \/ /\ conc.err = ErrNotExist
       /\ conc.file = NoFile
       /\ conc.calls = <<>>
    \/ /\ conc.fs # Nil
       /\ conc.fs \in conc.during
       /\ conc.steps = 2
       /\ LET r == openServe(conc.fs, SubOf(conc.name))
          IN conc.file = r.file /\ conc.err = r.err /\ conc.calls = r.calls

\* Open("a/a") was served by fs1 although a was mounted anew or unmounted
\* while the call was in flight
C15_Witness ==
  /\ conc.pc = "done" /\ conc.name = <<"a", "/", "a">>
  /\ conc.fs = "fs1" /\ conc.err = Nil
  /\ conc.calls = <<BackendCall("fs1", "Open", <<"a">>)>>
  /\ At(roots, <<"a">>) # "fs1"

\* Open("a/a") found a in split and no longer in its own lookup
C15_WitnessGone ==
  /\ conc.pc = "done" /\ conc.name = <<"a", "/", "a">>
  /\ conc.steps = 2 /\ conc.err = ErrNotExist

====
